---- MODULE Spec2Model ----
(***************************************************************************)
(* The leadscrew controller of TeensyELS (lib/leadscrew/leadscrew.cpp):    *)
(* the step generator Leadscrew::update() with its helpers, the setters    *)
(* the UI calls between ticks, the lead axis it follows and the two pins   *)
(* it drives.                                                              *)
(*                                                                         *)
(* Numbers.  m_ratio, m_accumulator and m_currentPulseDelay are floats.    *)
(* The ratio is kept as a numerator over RatioDen and the accumulator as a *)
(* numerator over AccDen; every value the model reaches is a small         *)
(* multiple of 1/4, which single precision holds exactly.  The pulse delay *)
(* only ever takes whole values (sums and differences of whole numbers of  *)
(* microseconds), so it is an integer here.                                *)
(*                                                                         *)
(* Time.  m_lastPulseMicros is an elapsed-microseconds counter: it grows   *)
(* with the clock between two calls of update() and reads as the last      *)
(* value assigned to it within one call.                                   *)
(***************************************************************************)
EXTENDS Integers, FiniteSets, Sequences, TLC

----------------------------------------------------------------------------
(* Compile-time configuration (config.h, not part of the sources read).    *)
(* A small configuration that keeps the order of the documented one,       *)
(* TIMER < JOG delay < INITIAL delay.                                      *)

LEADSCREW_TIMER_US == 5
JOG_PULSE_DELAY_US == 20
LEADSCREW_INITIAL_PULSE_DELAY_US == 40
LEADSCREW_PULSE_DELAY_STEP_US == 1
ELS_LEADSCREW_STEPPER_PPR == 400
ELS_LEADSCREW_STEPS_PER_MM == 200

(* enum LeadscrewDirection (leadscrew.h): the values update() adds to the  *)
(* position and multiplies the accumulator unit with.                      *)
LEFT == -1
RIGHT == 1
UNKNOWN == 0

MotionModes == {"DISABLED", "JOG", "ENABLED"}
\* enum StopPosition and enum LeadscrewStopState (leadscrew.h)
StopSides == {"LEFT", "RIGHT"}
StopStates == {"UNSET", "SET"}
\* what getStopPosition() returns for a stop that is not set
INT32_MAX == 2147483647
INT32_MIN == -INT32_MAX - 1
SyncStates == {"UNSYNC", "SYNC"}

----------------------------------------------------------------------------
(* Bounds of the model.                                                    *)

\* the lead axis moves within -MaxLead .. MaxLead in the general model
MaxLead == 1
\* elapsed time saturates here: beyond every delay the code compares it with
MaxMicros == 50
\* the position and the accumulator (in 1/AccDen steps) the model follows
MaxPosition == 128
MaxAccumulator == 64
\* the travel of the lead axis in the cold-start scenario
ColdStartTravel == 100
\* the distance to the target in the jog scenario
JogDistance == 20

\* ratios are RatioNum / RatioDen: 0.5, 1.0 and 2.0
RatioDen == 2
Ratios == {1, 2, 4}
\* the accumulator counts 1/AccDen steps
AccDen == 4
\* the time between two calls of update(): on schedule, or late
TickGaps == {LEADSCREW_TIMER_US, 3 * LEADSCREW_INITIAL_PULSE_DELAY_US}
\* the positions the UI sets a stop to
StopPositions == {-1, 1}
\* micros() when the constructor runs
BootMicros == {0, JOG_PULSE_DELAY_US}

----------------------------------------------------------------------------
VARIABLES
    motionMode,                   \* GlobalState::getMotionMode()
    threadSyncState,              \* GlobalState thread sync state
    leadPosition,                 \* m_leadAxis->getCurrentPosition()
    ratio,                        \* m_ratio, numerator over RatioDen
    currentPosition,              \* Axis::m_currentPosition
    accumulator,                  \* m_accumulator, numerator over AccDen
    currentPulseDelay,            \* m_currentPulseDelay
    lastPulseMicros,              \* m_lastPulseMicros
    lastFullPulseDurationMicros,  \* m_lastFullPulseDurationMicros
    currentDirection,             \* m_currentDirection
    stepPin,                      \* level of the step pin (readStepPin)
    dirPin,                       \* last level written to the direction pin, -1: none yet
    stepWritten,                  \* the last update() called writeStepPin
    stepEdges,                    \* how often the last update() changed the step pin's level
    dirWritten,                   \* the last update() called writeDirPin
    sinceJogRise,                 \* time since a JOG tick last drove the step pin high, -1: never
    jogRiseGap,                   \* time between the last two such rising edges, -1: fewer than two
    leftStopState,                \* m_leftStopState
    rightStopState,               \* m_rightStopState
    leftStopPosition,             \* m_leftStopPosition: <<p>>, or <<>> while never assigned
    rightStopPosition,            \* m_rightStopPosition, likewise
    lastStopSet,                  \* per side: <<p>> of the last setStopPosition, <<>> if none or unset since
    lastOp                        \* the last operation: <<"update", mode it ran in>>, <<"setRatio", r>>, ...

vars == <<motionMode, threadSyncState, leadPosition, ratio, currentPosition,
          accumulator, currentPulseDelay, lastPulseMicros,
          lastFullPulseDurationMicros, currentDirection, stepPin, dirPin,
          stepWritten, stepEdges, dirWritten, sinceJogRise, jogRiseGap,
          leftStopState, rightStopState, leftStopPosition, rightStopPosition,
          lastStopSet, lastOp>>

stopVars == <<leftStopState, rightStopState, leftStopPosition,
              rightStopPosition, lastStopSet>>

----------------------------------------------------------------------------
(* Arithmetic helpers.                                                     *)

Abs(x) == IF x < 0 THEN -x ELSE x

Min(a, b) == IF a < b THEN a ELSE b

Sign(x) == IF x > 0 THEN 1 ELSE IF x < 0 THEN -1 ELSE 0

\* conversion of the quotient n / d (d > 0) to int: truncation toward zero
Trunc(n, d) == IF n >= 0 THEN n \div d ELSE -((-n) \div d)

\* the clock between two calls of update()
Elapse(t, dt) == Min(t + dt, MaxMicros)

----------------------------------------------------------------------------
(* The pure parts of Leadscrew.                                            *)

\* getExpectedPosition(): int <- leadPosition * m_ratio
getExpectedPosition(lead, r) == Trunc(lead * r, RatioDen)

\* getPositionError()
getPositionError(lead, r, pos) == getExpectedPosition(lead, r) - pos

\* a resetCurrentPosition() that rounds down instead of toward zero
resetCurrentPositionFloor(lead, r) == (lead * r) \div RatioDen

\* resetCurrentPosition(): the value it stores
resetCurrentPosition(lead, r) == Trunc(lead * r, RatioDen)

\* a setRatio() that stores the ratio and keeps the position
setRatioPositionKept(lead, r, pos) == pos

\* setRatio(): the position it extrapolates for the new ratio
setRatioPosition(lead, r, pos) == Trunc(lead * r, RatioDen)

\* getAccumulatorUnit(), in 1/AccDen steps
getAccumulatorUnit(r) ==
    (ELS_LEADSCREW_STEPS_PER_MM * r * AccDen)
        \div (RatioDen * ELS_LEADSCREW_STEPPER_PPR)

\* sendPulse(): the level it writes, and what it returns
sendPulseLevel(pin) == IF pin = 1 THEN 0 ELSE 1
sendPulseResult(pin) == pin = 1

\* a constructor that starts one quantum above the slowest delay
ctorPulseDelayAbove ==
    LEADSCREW_INITIAL_PULSE_DELAY_US + LEADSCREW_PULSE_DELAY_STEP_US

\* the constructor's m_currentPulseDelay
ctorPulseDelay == LEADSCREW_INITIAL_PULSE_DELAY_US

\* an update() that latches the direction without restarting the clock
restartMicrosKept(t) == t

\* update(), ENABLED, entering motion from rest: m_lastPulseMicros = 0
restartMicros(t) == 0

\* update(): accelChange
accelChange(timeSinceLastPulse) ==
    IF LEADSCREW_PULSE_DELAY_STEP_US * timeSinceLastPulse = 0
    THEN LEADSCREW_PULSE_DELAY_STEP_US
    ELSE LEADSCREW_PULSE_DELAY_STEP_US * timeSinceLastPulse

\* update(): "if we've missed the schedule, decelerate"
missedSchedule(timeSinceLastPulse, delay) ==
    /\ timeSinceLastPulse > delay + LEADSCREW_PULSE_DELAY_STEP_US
    /\ delay + accelChange(timeSinceLastPulse) < LEADSCREW_INITIAL_PULSE_DELAY_US

\* update(): stoppingDistanceInPulses
stoppingDistanceInPulses(delay, accel) ==
    Trunc(LEADSCREW_INITIAL_PULSE_DELAY_US - delay, accel)

\* update(): shouldStop
shouldStop(positionError, delay, accel, nextDirection, direction) ==
    \/ Abs(positionError) - stoppingDistanceInPulses(delay, accel) <= 0
    \/ nextDirection # direction

\* update(): the two clamps of m_currentPulseDelay after a pulse
clampPulseDelay(d) ==
    LET upper == IF d > LEADSCREW_INITIAL_PULSE_DELAY_US
                 THEN LEADSCREW_INITIAL_PULSE_DELAY_US ELSE d
    IN  IF upper < 0 THEN 0 ELSE upper

\* a JOG branch that sends the pulses a late tick has missed in one burst
jogSendPulseCallsCatchUp(t) == t \div JOG_PULSE_DELAY_US

\* update(), JOG: the calls of sendPulse() in a tick that is due (line 131)
jogSendPulseCalls(t) == 1

\* a JOG branch that restarts the clock after its pulse, as ENABLED does
jogLastPulseMicrosReset(t) == 0

\* update(), JOG: m_lastPulseMicros after a tick that is due (not assigned)
jogLastPulseMicros(t) == t

\* a JOG branch that leaves the jog whenever a pulse is due
jogCompleteAlways(positionError) == TRUE

\* update(), JOG: "if jog is complete go back to disabled motion mode"
jogComplete(positionError) == positionError = 0

----------------------------------------------------------------------------
Operations ==
    {<<"ctor">>, <<"setMotionMode">>, <<"setThreadSyncState">>, <<"leadMove">>}
        \cup {<<"update", mode>> : mode \in MotionModes}
        \cup {<<"setRatio", r>> : r \in Ratios}
        \cup {<<"setStopPosition", side, p>> :
                  side \in StopSides, p \in StopPositions}
        \cup {<<"unsetStopPosition", side>> : side \in StopSides}

\* the last operation was a call of update()
Updated == lastOp[1] = "update"
\* ... that ran in this motion mode
UpdatedIn(mode) == lastOp = <<"update", mode>>

\* a stop position member: never assigned by the constructor, or <<p>>
StoredStops == {<<>>} \cup {<<p>> : p \in StopPositions}

\* the constructor leaves both stops UNSET and their positions unassigned
StopsConstructed ==
    /\ leftStopState = "UNSET"
    /\ rightStopState = "UNSET"
    /\ leftStopPosition = <<>>
    /\ rightStopPosition = <<>>
    /\ lastStopSet = [side \in StopSides |-> <<>>]

TypeOK ==
    /\ motionMode \in MotionModes
    /\ threadSyncState \in SyncStates
    /\ leadPosition \in Int
    /\ ratio \in Ratios
    /\ currentPosition \in Int
    /\ accumulator \in Int
    /\ currentPulseDelay \in Int
    /\ lastPulseMicros \in 0..MaxMicros
    /\ lastFullPulseDurationMicros \in 0..MaxMicros
    /\ currentDirection \in {LEFT, RIGHT, UNKNOWN}
    /\ stepPin \in {0, 1}
    /\ dirPin \in {-1, 0, 1}
    /\ stepWritten \in BOOLEAN
    /\ stepEdges \in Nat
    /\ dirWritten \in BOOLEAN
    /\ sinceJogRise \in -1..JOG_PULSE_DELAY_US
    /\ jogRiseGap \in -1..JOG_PULSE_DELAY_US
    /\ leftStopState \in StopStates
    /\ rightStopState \in StopStates
    /\ leftStopPosition \in StoredStops
    /\ rightStopPosition \in StoredStops
    /\ lastStopSet \in [StopSides -> StoredStops]
    /\ lastOp \in Operations

(* Leadscrew::Leadscrew, with the global state's initial DISABLED, UNSYNC  *)
(* and both pins as the bring-up leaves them (step low).                   *)
Init ==
    /\ motionMode = "DISABLED"
    /\ threadSyncState = "UNSYNC"
    /\ leadPosition = 0
    /\ ratio = RatioDen
    /\ currentPosition = 0
    /\ lastPulseMicros \in BootMicros
    /\ lastFullPulseDurationMicros = 0
    /\ currentPulseDelay = ctorPulseDelay
    /\ accumulator = 0
    /\ currentDirection = UNKNOWN
    /\ stepPin = 0
    /\ dirPin = -1
    /\ stepWritten = FALSE
    /\ stepEdges = 0
    /\ dirWritten = FALSE
    /\ sinceJogRise = -1
    /\ jogRiseGap = -1
    /\ StopsConstructed
    /\ lastOp = <<"ctor">>

----------------------------------------------------------------------------
(* Leadscrew::update(), one branch of its switch each.  t is               *)
(* m_lastPulseMicros as the call finds it, positionError what line 114     *)
(* computes, since the time a JOG tick last raised the step pin.           *)

\* case GlobalMotionMode::DISABLED
updateDisabled(t, since) ==
    /\ currentPosition' = resetCurrentPosition(leadPosition, ratio)
    /\ lastPulseMicros' = t
    /\ stepWritten' = FALSE
    /\ stepEdges' = 0
    /\ dirWritten' = FALSE
    /\ sinceJogRise' = since
    /\ UNCHANGED <<motionMode, threadSyncState, accumulator, currentPulseDelay,
                   lastFullPulseDurationMicros, currentDirection, stepPin,
                   dirPin, jogRiseGap>>

\* case GlobalMotionMode::JOG
updateJog(t, positionError, since) ==
    LET due == ~(t < JOG_PULSE_DELAY_US)
        calls == IF due THEN jogSendPulseCalls(t) ELSE 0
        level == IF calls % 2 = 1 THEN sendPulseLevel(stepPin) ELSE stepPin
        rose == (calls >= 1 /\ sendPulseLevel(stepPin) = 1) \/ calls >= 2
    IN  /\ lastPulseMicros' = IF due THEN jogLastPulseMicros(t) ELSE t
        /\ dirWritten' = FALSE
        /\ motionMode' = IF due /\ jogComplete(positionError)
                         THEN "DISABLED" ELSE motionMode
        /\ stepPin' = level
        /\ stepWritten' = (calls > 0)
        /\ stepEdges' = calls
        /\ IF rose
           THEN /\ sinceJogRise' = 0
                /\ jogRiseGap' = IF since = -1 THEN jogRiseGap ELSE since
           ELSE /\ sinceJogRise' = since
                /\ UNCHANGED jogRiseGap
        /\ UNCHANGED <<threadSyncState, currentPosition, accumulator,
                       currentPulseDelay, lastFullPulseDurationMicros,
                       currentDirection, dirPin>>

\* case GlobalMotionMode::ENABLED
updateEnabled(t, positionError, since) ==
    LET nextDirection == Sign(positionError)
        atRest == currentPulseDelay = LEADSCREW_INITIAL_PULSE_DELAY_US
        \* lines 137-151: entering motion from rest
        direction == IF atRest THEN nextDirection ELSE currentDirection
        micros == IF atRest THEN restartMicros(t) ELSE t
        \* lines 160-173
        timeSinceLastPulse == micros
        accel == accelChange(timeSinceLastPulse)
        delay == IF missedSchedule(timeSinceLastPulse, currentPulseDelay)
                 THEN currentPulseDelay + accel ELSE currentPulseDelay
        \* lines 188-229, when sendPulse() returned true
        acc == accumulator + direction * getAccumulatorUnit(ratio)
        ramped == IF shouldStop(positionError, delay, accel, nextDirection, direction)
                  THEN delay + accel ELSE delay - accel
        consume == acc > AccDen \/ acc < -AccDen
    IN  /\ sinceJogRise' = since
        /\ UNCHANGED <<motionMode, threadSyncState, jogRiseGap>>
        /\ IF positionError = 0
           THEN \* lines 152-155: at a standstill
                /\ currentDirection' = UNKNOWN
                /\ lastPulseMicros' = t
                /\ stepWritten' = FALSE
                /\ stepEdges' = 0
                /\ dirWritten' = FALSE
                /\ UNCHANGED <<currentPosition, accumulator, currentPulseDelay,
                               lastFullPulseDurationMicros, stepPin, dirPin>>
           ELSE /\ dirWritten' = atRest
                /\ dirPin' = IF atRest THEN (IF positionError > 0 THEN 1 ELSE 0)
                                       ELSE dirPin
                /\ currentDirection' = direction
                /\ IF timeSinceLastPulse < delay
                   THEN \* line 182: not scheduled for a pulse
                        /\ lastPulseMicros' = micros
                        /\ currentPulseDelay' = delay
                        /\ stepWritten' = FALSE
                        /\ stepEdges' = 0
                        /\ UNCHANGED <<currentPosition, accumulator,
                                       lastFullPulseDurationMicros, stepPin>>
                   ELSE /\ stepPin' = sendPulseLevel(stepPin)
                        /\ stepWritten' = TRUE
                        /\ stepEdges' = 1
                        /\ IF sendPulseResult(stepPin)
                           THEN /\ lastFullPulseDurationMicros' = micros
                                /\ lastPulseMicros' = 0
                                /\ currentPulseDelay' = clampPulseDelay(ramped)
                                /\ accumulator' =
                                       IF consume THEN acc + direction * AccDen
                                                  ELSE acc
                                /\ currentPosition' =
                                       IF consume THEN currentPosition + direction
                                                  ELSE currentPosition
                                /\ Abs(accumulator') <= MaxAccumulator
                                /\ Abs(currentPosition') <= MaxPosition
                           ELSE /\ lastPulseMicros' = micros
                                /\ currentPulseDelay' = delay
                                /\ UNCHANGED <<currentPosition, accumulator,
                                               lastFullPulseDurationMicros>>

(* One call of update(), dt microseconds after the previous operation.     *)
update(dt) ==
    LET t == Elapse(lastPulseMicros, dt)
        positionError == getPositionError(leadPosition, ratio, currentPosition)
        since == IF sinceJogRise = -1 THEN -1
                 ELSE Min(sinceJogRise + dt, JOG_PULSE_DELAY_US)
    IN  /\ lastOp' = <<"update", motionMode>>
        /\ UNCHANGED <<leadPosition, ratio>>
        /\ UNCHANGED stopVars
        /\ CASE motionMode = "DISABLED" -> updateDisabled(t, since)
             [] motionMode = "JOG" -> updateJog(t, positionError, since)
             [] motionMode = "ENABLED" -> updateEnabled(t, positionError, since)

Tick == \E dt \in TickGaps : update(dt)

----------------------------------------------------------------------------
(* What happens between two ticks.                                         *)

\* Leadscrew::setRatio
setRatio(r) ==
    /\ ratio' = r
    /\ currentPosition' = setRatioPosition(leadPosition, r, currentPosition)
    /\ lastOp' = <<"setRatio", r>>
    /\ UNCHANGED stopVars
    /\ UNCHANGED <<motionMode, threadSyncState, leadPosition, accumulator,
                   currentPulseDelay, lastPulseMicros,
                   lastFullPulseDurationMicros, currentDirection, stepPin,
                   dirPin, stepWritten, stepEdges, dirWritten, sinceJogRise,
                   jogRiseGap>>

SetRatio == \E r \in Ratios : setRatio(r)

\* GlobalState::setMotionMode, called by the UI
setMotionMode(mode) ==
    /\ mode # motionMode
    /\ motionMode' = mode
    /\ lastOp' = <<"setMotionMode">>
    /\ UNCHANGED stopVars
    /\ UNCHANGED <<threadSyncState, leadPosition, ratio, currentPosition,
                   accumulator, currentPulseDelay, lastPulseMicros,
                   lastFullPulseDurationMicros, currentDirection, stepPin,
                   dirPin, stepWritten, stepEdges, dirWritten, sinceJogRise,
                   jogRiseGap>>

SetMotionMode == \E mode \in MotionModes : setMotionMode(mode)

\* GlobalState::setThreadSyncState, called by the UI
setThreadSyncState(state) ==
    /\ state # threadSyncState
    /\ threadSyncState' = state
    /\ lastOp' = <<"setThreadSyncState">>
    /\ UNCHANGED stopVars
    /\ UNCHANGED <<motionMode, leadPosition, ratio, currentPosition,
                   accumulator, currentPulseDelay, lastPulseMicros,
                   lastFullPulseDurationMicros, currentDirection, stepPin,
                   dirPin, stepWritten, stepEdges, dirWritten, sinceJogRise,
                   jogRiseGap>>

SetThreadSyncState == \E state \in SyncStates : setThreadSyncState(state)

\* the spindle encoder moves the lead axis by one count
leadMove(d, bound) ==
    /\ Abs(leadPosition + d) <= bound
    /\ leadPosition' = leadPosition + d
    /\ lastOp' = <<"leadMove">>
    /\ UNCHANGED stopVars
    /\ UNCHANGED <<motionMode, threadSyncState, ratio, currentPosition,
                   accumulator, currentPulseDelay, lastPulseMicros,
                   lastFullPulseDurationMicros, currentDirection, stepPin,
                   dirPin, stepWritten, stepEdges, dirWritten, sinceJogRise,
                   jogRiseGap>>

LeadMove == \E d \in {-1, 1} : leadMove(d, MaxLead)

\* the variables the stop operations leave alone
nonStopVars ==
    <<motionMode, threadSyncState, leadPosition, ratio, currentPosition,
      accumulator, currentPulseDelay, lastPulseMicros,
      lastFullPulseDurationMicros, currentDirection, stepPin, dirPin,
      stepWritten, stepEdges, dirWritten, sinceJogRise, jogRiseGap>>

\* Leadscrew::getStopPosition
getStopPosition(position) ==
    CASE position = "LEFT" ->
           IF leftStopState = "SET" THEN leftStopPosition[1] ELSE INT32_MIN
      [] position = "RIGHT" ->
           IF rightStopState = "SET" THEN rightStopPosition[1] ELSE INT32_MAX

\* an unsetStopPosition() whose RIGHT case clears the left stop
unsetStopPositionLeftTwice(position) ==
    /\ leftStopState' = "UNSET"
    /\ lastStopSet' = [lastStopSet EXCEPT ![position] = <<>>]
    /\ lastOp' = <<"unsetStopPosition", position>>
    /\ UNCHANGED <<rightStopState, leftStopPosition, rightStopPosition>>
    /\ UNCHANGED nonStopVars

\* Leadscrew::unsetStopPosition
unsetStopPosition(position) ==
    /\ CASE position = "LEFT" ->
              /\ leftStopState' = "UNSET"
              /\ UNCHANGED rightStopState
         [] position = "RIGHT" ->
              /\ rightStopState' = "UNSET"
              /\ UNCHANGED leftStopState
    /\ lastStopSet' = [lastStopSet EXCEPT ![position] = <<>>]
    /\ lastOp' = <<"unsetStopPosition", position>>
    /\ UNCHANGED <<leftStopPosition, rightStopPosition>>
    /\ UNCHANGED nonStopVars

UnsetStopPosition == \E position \in StopSides : unsetStopPosition(position)

\* Leadscrew::setStopPosition
setStopPosition(position, stopPosition) ==
    /\ CASE position = "LEFT" ->
              /\ leftStopPosition' = <<stopPosition>>
              /\ leftStopState' = "SET"
              /\ UNCHANGED <<rightStopPosition, rightStopState>>
         [] position = "RIGHT" ->
              /\ rightStopPosition' = <<stopPosition>>
              /\ rightStopState' = "SET"
              /\ UNCHANGED <<leftStopPosition, leftStopState>>
    /\ lastStopSet' = [lastStopSet EXCEPT ![position] = <<stopPosition>>]
    /\ lastOp' = <<"setStopPosition", position, stopPosition>>
    /\ UNCHANGED nonStopVars

SetStopPosition ==
    \E position \in StopSides, stopPosition \in StopPositions :
        setStopPosition(position, stopPosition)

Next == Tick \/ SetRatio \/ SetMotionMode \/ SetThreadSyncState \/ LeadMove

Spec == Init /\ [][Next]_vars

(* The soft stops.  update() reads none of the stop members, so the        *)
(* general model leaves the stop operations out; here they interleave with *)
(* the lead axis and ticks of the timer period, in each motion mode.       *)
\* the constructed controller, put in one of the motion modes by the UI
StopInit ==
    /\ motionMode \in MotionModes
    /\ threadSyncState = "UNSYNC"
    /\ leadPosition = 0
    /\ ratio = RatioDen
    /\ currentPosition = 0
    /\ lastPulseMicros \in BootMicros
    /\ lastFullPulseDurationMicros = 0
    /\ currentPulseDelay = ctorPulseDelay
    /\ accumulator = 0
    /\ currentDirection = UNKNOWN
    /\ stepPin = 0
    /\ dirPin = -1
    /\ stepWritten = FALSE
    /\ stepEdges = 0
    /\ dirWritten = FALSE
    /\ sinceJogRise = -1
    /\ jogRiseGap = -1
    /\ StopsConstructed
    /\ lastOp = <<"setMotionMode">>

StopAdvance == leadMove(1, MaxLead)

StopTick == update(LEADSCREW_TIMER_US)

StopNext ==
    \/ StopTick
    \/ StopAdvance
    \/ SetStopPosition
    \/ UnsetStopPosition

StopSpec == StopInit /\ [][StopNext]_vars

----------------------------------------------------------------------------
(* The cold-start scenario: tracking is enabled on the freshly constructed *)
(* controller (ratio 1.0, position 0, slowest delay, step pin low), the    *)
(* lead axis advances by ColdStartTravel counts and then holds still,      *)
(* while update() is called every LEADSCREW_TIMER_US.  The tick driver     *)
(* keeps calling update() and the axis completes its travel: both are      *)
(* weakly fair.                                                            *)

\* the UI has called setMotionMode(ENABLED) on the constructed controller
ColdStartInit ==
    /\ motionMode = "ENABLED"
    /\ threadSyncState = "UNSYNC"
    /\ leadPosition = 0
    /\ ratio = RatioDen
    /\ currentPosition = 0
    /\ lastPulseMicros \in BootMicros
    /\ lastFullPulseDurationMicros = 0
    /\ currentPulseDelay = ctorPulseDelay
    /\ accumulator = 0
    /\ currentDirection = UNKNOWN
    /\ stepPin = 0
    /\ dirPin = -1
    /\ stepWritten = FALSE
    /\ stepEdges = 0
    /\ dirWritten = FALSE
    /\ sinceJogRise = -1
    /\ jogRiseGap = -1
    /\ StopsConstructed
    /\ lastOp = <<"setMotionMode">>

ColdStartAdvance == leadMove(1, ColdStartTravel)

ColdStartTick == update(LEADSCREW_TIMER_US)

ColdStartNext == ColdStartAdvance \/ ColdStartTick

ColdStartSpec ==
    /\ ColdStartInit
    /\ [][ColdStartNext]_vars
    /\ WF_vars(ColdStartTick)
    /\ WF_vars(ColdStartAdvance)

----------------------------------------------------------------------------
(* C1.  Cold start convergence: enabled at ratio 1.0 from position 0 at    *)
(* the slowest delay with the step pin low, once the lead axis has         *)
(* advanced by ColdStartTravel and holds still, the ticks eventually reach *)
(* currentPosition = ColdStartTravel with the pulse delay back at          *)
(* LEADSCREW_INITIAL_PULSE_DELAY_US.                                       *)
ColdStartConverges ==
    <>(/\ currentPosition = ColdStartTravel
       /\ currentPulseDelay = LEADSCREW_INITIAL_PULSE_DELAY_US)

----------------------------------------------------------------------------
(* C2.  After every update(), in any motion mode and after any sequence of *)
(* ticks, mode changes, setRatio calls and lead-axis movements,            *)
(* 0 <= currentPulseDelay <= LEADSCREW_INITIAL_PULSE_DELAY_US.             *)
PulseDelayInRange ==
    Updated => /\ currentPulseDelay >= 0
               /\ currentPulseDelay <= LEADSCREW_INITIAL_PULSE_DELAY_US

\* an ENABLED tick that found an error, after a ratio change and lead movement
PulseDelayInRangeWitness ==
    /\ UpdatedIn("ENABLED")
    /\ ratio # RatioDen
    /\ leadPosition # 0
    /\ getPositionError(leadPosition, ratio, currentPosition) # 0
    /\ currentDirection # UNKNOWN

----------------------------------------------------------------------------
(* C3.  Every step pulse is counted once: a tick in which the step pin     *)
(* goes from high to low changes currentPosition by exactly one step in    *)
(* currentDirection, and an ENABLED tick without a falling edge leaves     *)
(* currentPosition unchanged.                                              *)
FallingEdge == stepPin = 1 /\ stepPin' = 0

PulseCountedOnce ==
    [][/\ (lastOp'[1] = "update" /\ FallingEdge)
            => /\ currentDirection' \in {LEFT, RIGHT}
               /\ currentPosition' = currentPosition + currentDirection'
       /\ (lastOp' = <<"update", "ENABLED">> /\ ~FallingEdge)
            => currentPosition' = currentPosition]_vars

----------------------------------------------------------------------------
(* The ENABLED branch never reaches sendPulse(): the delay is at its       *)
(* slowest when tracking starts, so each tick with an error restarts       *)
(* m_lastPulseMicros and then finds the pulse not yet due.  Lines 188-229  *)
(* (accumulator, ramp, position count) therefore never run, and the delay  *)
(* and the accumulator keep the constructor's values.                      *)
EnabledNeverPulses ==
    /\ UpdatedIn("ENABLED") => ~stepWritten
    /\ currentPulseDelay = LEADSCREW_INITIAL_PULSE_DELAY_US
    /\ accumulator = 0
    /\ lastFullPulseDurationMicros = 0

----------------------------------------------------------------------------
(* C5.  DISABLED re-sync: every update() that ran in DISABLED mode ends    *)
(* with currentPosition equal to leadPosition * ratio truncated toward     *)
(* zero, so with positionError = 0, and has written neither pin.           *)

\* p is the quotient n / d (d > 0) truncated toward zero
IsTruncation(p, n, d) ==
    /\ Abs(p) * d <= Abs(n)
    /\ Abs(n) < (Abs(p) + 1) * d
    /\ p # 0 => Sign(p) = Sign(n)

DisabledResync ==
    UpdatedIn("DISABLED") =>
        /\ IsTruncation(currentPosition, leadPosition * ratio, RatioDen)
        /\ getPositionError(leadPosition, ratio, currentPosition) = 0
        /\ ~stepWritten
        /\ ~dirWritten

\* a DISABLED tick with the lead axis at -1/2 step: the position is 0, and
\* the step pin a jog left high was not touched
DisabledResyncWitness ==
    /\ UpdatedIn("DISABLED")
    /\ leadPosition * ratio = -1
    /\ currentPosition = 0
    /\ stepPin = 1

----------------------------------------------------------------------------
(* C6.  Ratio change invariance: right after setRatio(r), getRatio() = r   *)
(* and positionError = 0, whatever r, the lead position, the motion mode   *)
(* and the position before.                                                *)
RatioChangeInvariance ==
    \A r \in Ratios :
        lastOp = <<"setRatio", r>> =>
            /\ ratio = r
            /\ getExpectedPosition(leadPosition, ratio) - currentPosition = 0

\* setRatio(2.0) while ENABLED with the lead axis off zero
RatioChangeInvarianceWitness ==
    /\ lastOp = <<"setRatio", 4>>
    /\ motionMode = "ENABLED"
    /\ leadPosition = -1
    /\ currentPosition = -2

----------------------------------------------------------------------------
(* C7.  No update() both writes the direction pin and drives the step pin  *)
(* from low to high.                                                       *)
RisingEdgeInLastOp == stepWritten /\ stepPin = 1

NoDirWriteWithRisingEdge ==
    Updated => ~(dirWritten /\ RisingEdgeInLastOp)

\* an ENABLED tick wrote the direction pin for a move to the left and left
\* the step pin low
NoDirWriteWithRisingEdgeWitness ==
    /\ UpdatedIn("ENABLED")
    /\ dirWritten
    /\ dirPin = 0
    /\ currentDirection = LEFT
    /\ ~stepWritten
    /\ stepPin = 0

----------------------------------------------------------------------------
(* C8.  The direction pin is never written while the step pin is high,     *)
(* under any interleaving of ticks with mode changes, setRatio calls and   *)
(* lead-axis movement.  update() writes the direction pin before it calls  *)
(* sendPulse(), so the level the write found is the level before the       *)
(* tick's own step write.                                                  *)
StepLevelBeforeLastOp ==
    IF stepWritten THEN 1 - stepPin ELSE stepPin

DirNeverWrittenMidPulse ==
    (Updated /\ dirWritten) => StepLevelBeforeLastOp = 0

----------------------------------------------------------------------------
(* C10.  Jog rate: between two consecutive rising edges of the step pin    *)
(* produced by JOG ticks at least JOG_PULSE_DELAY_US elapse.               *)
JogRate ==
    jogRiseGap # -1 => jogRiseGap >= JOG_PULSE_DELAY_US

----------------------------------------------------------------------------
(* The jog scenario: the UI requests a jog on the constructed controller,  *)
(* the lead axis is JogDistance counts away from where the leadscrew       *)
(* believes it is and then holds still, and update() is called every       *)
(* LEADSCREW_TIMER_US.  The tick driver keeps calling update() and the     *)
(* axis completes its travel: both are weakly fair.                        *)

\* the UI has called setMotionMode(JOG) on the constructed controller
JogInit ==
    /\ motionMode = "JOG"
    /\ threadSyncState = "UNSYNC"
    /\ leadPosition = 0
    /\ ratio = RatioDen
    /\ currentPosition = 0
    /\ lastPulseMicros \in BootMicros
    /\ lastFullPulseDurationMicros = 0
    /\ currentPulseDelay = ctorPulseDelay
    /\ accumulator = 0
    /\ currentDirection = UNKNOWN
    /\ stepPin = 0
    /\ dirPin = -1
    /\ stepWritten = FALSE
    /\ stepEdges = 0
    /\ dirWritten = FALSE
    /\ sinceJogRise = -1
    /\ jogRiseGap = -1
    /\ StopsConstructed
    /\ lastOp = <<"setMotionMode">>

JogAdvance == leadMove(1, JogDistance)

JogTick == update(LEADSCREW_TIMER_US)

JogNext == JogAdvance \/ JogTick

JogSpec ==
    /\ JogInit
    /\ [][JogNext]_vars
    /\ WF_vars(JogTick)
    /\ WF_vars(JogAdvance)

----------------------------------------------------------------------------
(* C11.  Jog completion: from JOG mode with currentPosition JogDistance    *)
(* steps away from the expected position and the lead axis holding still,  *)
(* the ticks eventually bring positionError to 0 and motionMode back to    *)
(* DISABLED.                                                               *)
JogCompletes ==
    (/\ motionMode = "JOG"
     /\ Abs(getPositionError(leadPosition, ratio, currentPosition)) = JogDistance)
        ~> (/\ getPositionError(leadPosition, ratio, currentPosition) = 0
            /\ motionMode = "DISABLED")

----------------------------------------------------------------------------
(* C12.  Cancellation leaves no pulse stuck high: the step pin is never    *)
(* high after two consecutive ticks in DISABLED mode; a DISABLED tick that *)
(* follows a DISABLED tick which left the pin high leaves it low.          *)
NoPulseStuckHigh ==
    [][(/\ UpdatedIn("DISABLED")
        /\ stepPin = 1
        /\ lastOp' = <<"update", "DISABLED">>)
            => stepPin' = 0]_vars

----------------------------------------------------------------------------
(* C15.  ENABLED at zero error publishes sync: every ENABLED tick that     *)
(* observes positionError = 0 sets currentDirection to UNKNOWN, sets       *)
(* threadSyncState to SYNC and leaves the step pin as it is.               *)
EnabledZeroErrorSyncs ==
    [][(/\ lastOp' = <<"update", "ENABLED">>
        /\ getPositionError(leadPosition, ratio, currentPosition) = 0)
            => /\ currentDirection' = UNKNOWN
               /\ threadSyncState' = "SYNC"
               /\ stepPin' = stepPin]_vars

----------------------------------------------------------------------------
(* C16.  Jog arrival emits no pulse: a JOG tick with m_lastPulseMicros >=  *)
(* JOG_PULSE_DELAY_US that observes positionError = 0 sets motionMode to   *)
(* DISABLED and does not change the step pin; a JOG tick writes the step   *)
(* pin only when positionError # 0.  (A JOG tick leaves m_lastPulseMicros  *)
(* as it found it, so the value after the tick is the one it compared.)    *)
JogArrivalSilent ==
    [][lastOp' = <<"update", "JOG">> =>
        /\ (/\ lastPulseMicros' >= JOG_PULSE_DELAY_US
            /\ getPositionError(leadPosition, ratio, currentPosition) = 0)
                => /\ motionMode' = "DISABLED"
                   /\ stepPin' = stepPin
        /\ stepWritten'
                => getPositionError(leadPosition, ratio, currentPosition) # 0]_vars

----------------------------------------------------------------------------
(* C13.  No catch-up burst: one update() changes the level of the step pin *)
(* at most once, in every motion mode and however large the position error *)
(* or the time since the last pulse.                                       *)
NoCatchUpBurst ==
    Updated => stepEdges <= 1

\* a JOG tick that came more than two jog periods late, two steps from the
\* target, and changed the step pin once
NoCatchUpBurstWitness ==
    /\ UpdatedIn("JOG")
    /\ lastPulseMicros >= 2 * JOG_PULSE_DELAY_US
    /\ Abs(getPositionError(leadPosition, ratio, currentPosition)) >= 2
    /\ stepEdges = 1

----------------------------------------------------------------------------
(* C19.  A JOG tick changes nothing but the step pin and the mode: it      *)
(* leaves currentPosition, currentPulseDelay, accumulator,                 *)
(* currentDirection, lastFullPulseDurationMicros, the direction pin and    *)
(* threadSyncState unchanged and does not restart m_lastPulseMicros (the   *)
(* value after the tick is the one before plus the time that has passed),  *)
(* whether or not it toggles the step pin.                                 *)
JogTickFrame ==
    [][lastOp' = <<"update", "JOG">> =>
        /\ currentPosition' = currentPosition
        /\ currentPulseDelay' = currentPulseDelay
        /\ accumulator' = accumulator
        /\ currentDirection' = currentDirection
        /\ lastFullPulseDurationMicros' = lastFullPulseDurationMicros
        /\ dirPin' = dirPin
        /\ ~dirWritten'
        /\ threadSyncState' = threadSyncState
        /\ \E dt \in TickGaps :
              lastPulseMicros' = Elapse(lastPulseMicros, dt)]_vars

\* a JOG tick off target completed a pulse, after the direction pin was
\* written and the sync state set by earlier operations
JogTickFrameWitness ==
    /\ UpdatedIn("JOG")
    /\ motionMode = "JOG"
    /\ stepWritten
    /\ stepPin = 0
    /\ getPositionError(leadPosition, ratio, currentPosition) # 0
    /\ lastPulseMicros >= JOG_PULSE_DELAY_US
    /\ dirPin = 1
    /\ currentDirection = RIGHT
    /\ threadSyncState = "SYNC"

----------------------------------------------------------------------------
(* C20.  The controller's only motion-mode transition is JOG to DISABLED:  *)
(* update() never changes motionMode when it is DISABLED or ENABLED,       *)
(* changes it from JOG only to DISABLED and only in a tick that observed   *)
(* positionError = 0 with m_lastPulseMicros >= JOG_PULSE_DELAY_US, and     *)
(* never sets threadSyncState to UNSYNC.                                   *)
OnlyJogToDisabled ==
    [][lastOp'[1] = "update" =>
        /\ motionMode \in {"DISABLED", "ENABLED"} => motionMode' = motionMode
        /\ motionMode' # motionMode =>
              /\ motionMode = "JOG"
              /\ motionMode' = "DISABLED"
              /\ getPositionError(leadPosition, ratio, currentPosition) = 0
              /\ \E dt \in TickGaps :
                    Elapse(lastPulseMicros, dt) >= JOG_PULSE_DELAY_US
              /\ lastPulseMicros' >= JOG_PULSE_DELAY_US
        /\ threadSyncState = "SYNC" => threadSyncState' = "SYNC"]_vars

\* a JOG tick has just ended the jog, with the sync state SYNC
OnlyJogToDisabledWitness ==
    /\ UpdatedIn("JOG")
    /\ motionMode = "DISABLED"
    /\ threadSyncState = "SYNC"
    /\ stepWritten

-----------------------------------------------------------------------------
\* the stop a side was last set to and not unset since, or its sentinel
StopExpected(side) ==
    IF lastStopSet[side] # <<>> THEN lastStopSet[side][1]
    ELSE IF side = "LEFT" THEN INT32_MIN ELSE INT32_MAX

\* the stop a side stores is the one getStopPosition() reports
StopReported ==
    \A side \in StopSides : getStopPosition(side) = StopExpected(side)

\* a step that is an update(), or a stop operation on another side, leaves
\* what getStopPosition() reports for the side as it was
StopFrame ==
    \A side \in StopSides :
        \/ lastOp'[1] \in {"setStopPosition", "unsetStopPosition"}
              /\ lastOp'[2] = side
        \/ getStopPosition(side)' = getStopPosition(side)

\* C14: getStopPosition() of a side returns the position of the most recent
\* setStopPosition() of that side when no unsetStopPosition() of it came
\* after, and INT32_MIN (left) or INT32_MAX (right) when the side was never
\* set or was unset since; update() and the operations on the other side
\* change neither.
StopAccessors == [](StopReported) /\ [][StopFrame]_vars

\* the left stop was set and then unset, the right stop is set, and an
\* update() has run since
StopAccessorsWitness ==
    /\ Updated
    /\ leftStopPosition # <<>>
    /\ leftStopState = "UNSET"
    /\ getStopPosition("LEFT") = INT32_MIN
    /\ rightStopState = "SET"
    /\ getStopPosition("RIGHT") = 1
    /\ stepPin = 1
=============================================================================
